---- MODULE Spec2Model ----
(***************************************************************************)
(* Event-decoding worker of AiScanner (workers/worker_3_1.py): ABI         *)
(* resolution with EIP-1967 proxy detection, signature matching, log       *)
(* decoding and the batch orchestrator run_label_events_worker, run        *)
(* repeatedly against an append-only sink.                                 *)
(***************************************************************************)
EXTENDS Integers, Sequences, FiniteSets, TLC

(***************************************************************************)
(* Bounds of the model and program constants (scaled where noted).         *)
(***************************************************************************)
\* Most distinct rows of the registry that Init enumerates.
MaxRegistry == 3

\* EVENTS_BATCH_SIZE (default "5" in the source), scaled so that a registry
\* longer than one batch fits in the model.
BATCH_SIZE == 2

\* LIMIT of the raw-log query (2000 in the source), scaled so that a
\* contract with more unprocessed logs than the cap fits in the model.
LIMIT == 2

(***************************************************************************)
(* Optional values: Python's None and a present value.                     *)
(***************************************************************************)
None == << >>

Some(x) == << x >>

\* Python truthiness of an Optional[list]: None and [] are both falsy.
Truthy(opt) == opt /= None /\ opt[1] /= << >>

(***************************************************************************)
(* Strings: str.lower() on the addresses and hashes of the model, and      *)
(* Web3.keccak(text=...).hex() on the signatures of the model.             *)
(***************************************************************************)
TRANSFER_TOPIC == "0xddf252ad1be2c89b69c2b068fc378daa952ba7f163c4a11628f55a4df523b3ef"

TRANSFER_TOPIC_UPPER == "0xDDF252AD1BE2C89B69C2B068FC378DAA952BA7F163C4A11628F55A4DF523B3EF"

APPROVAL_TOPIC == "0x8c5be1e5ebec7d5bd14f71427d1e84f3dd0314c0f7b2291e5b200ac8c7c3b925"

UPGRADED_TOPIC == "0xbc7cd75a20ee27fd9adebab32041f755214dbc6bffa90cc0225b39da2e5c2d3b"

UNKNOWN_TOPIC == "0x00000000000000000000000000000000000000000000000000000000deadbeef"

Lower(s) ==
    CASE s = "0xAA" -> "0xaa"
      [] s = "0xDE" -> "0xde"
      [] s = TRANSFER_TOPIC_UPPER -> TRANSFER_TOPIC
      [] OTHER -> s

Keccak(text) ==
    CASE text = "Transfer(address,address,uint256)" -> TRANSFER_TOPIC
      [] text = "Approval(address,address,uint256)" -> APPROVAL_TOPIC
      [] text = "Upgraded(address)" -> UPGRADED_TOPIC
      [] OTHER -> "0xkeccak:" \o text

RECURSIVE Join(_)
Join(types) ==
    IF types = << >> THEN ""
    ELSE IF Len(types) = 1 THEN types[1]
    ELSE types[1] \o "," \o Join(Tail(types))

\* [i['type'] for i in inputs]
InputTypes(inputs) == [k \in 1..Len(inputs) |-> inputs[k].type]

\* f"{entry['name']}({','.join(...)})"
SignatureText(entry) == entry.name \o "(" \o Join(InputTypes(entry.inputs)) \o ")"

(***************************************************************************)
(* ABIs of the model's world.                                              *)
(***************************************************************************)
In(n, t, ix) == [name |-> n, type |-> t, indexed |-> ix]

Event(n, ins, anon) == [type |-> "event", name |-> n, inputs |-> ins, anonymous |-> anon]

TransferEvent ==
    Event("Transfer",
          << In("from", "address", TRUE), In("to", "address", TRUE),
             In("value", "uint256", FALSE) >>, FALSE)

ApprovalEvent ==
    Event("Approval",
          << In("owner", "address", TRUE), In("spender", "address", TRUE),
             In("value", "uint256", FALSE) >>, FALSE)

UpgradedEvent == Event("Upgraded", << In("implementation", "address", TRUE) >>, FALSE)

ConstructorEntry == [type |-> "constructor", name |-> "", inputs |-> << >>, anonymous |-> FALSE]

\* The verified ABI of token 0xaa on ethereum, and of the implementation 0xcc.
ERC20_ABI == << ConstructorEntry, ApprovalEvent, TransferEvent >>

\* The verified ABI of the contract deployed at 0xaa on polygon-pos.
POLYGON_ABI == << ApprovalEvent >>

\* The verified ABI of the proxy 0xbb itself: only its admin events.
PROXY_ABI == << UpgradedEvent >>

\* The manual override table of the source (one address, an ERC-20 ABI).
ABI_MAPPING == [a \in {"0xde"} |-> ERC20_ABI]

(***************************************************************************)
(* The world outside the worker: the chains' storage, the explorers'       *)
(* verified sources, the registry rows and the raw logs that can exist.    *)
(***************************************************************************)
Chains == {"ethereum", "polygon-pos"}

ZERO_ADDRESS == "0x00"

\* A 32-byte storage word: its high 12 bytes and its low 20 bytes.
Word(h, l) == [hi |-> h, lo |-> l]

\* eth_getStorageAt(address, IMPLEMENTATION_SLOT) on each chain: 0xbb and 0xde
\* are EIP-1967 proxies of 0xcc, 0xdd holds a word whose low 20 bytes are zero.
StorageAt(chain, address) ==
    CASE chain = "ethereum" /\ address \in {"0xbb", "0xde"} -> Word(0, "0xcc")
      [] chain = "ethereum" /\ address = "0xdd" -> Word(1, ZERO_ADDRESS)
      [] OTHER -> Word(0, ZERO_ADDRESS)

\* The explorer's getabi answer for a verified source (None: status != "1").
VerifiedABI(chain, address) ==
    CASE chain = "ethereum" /\ address \in {"0xaa", "0xcc"} -> Some(ERC20_ABI)
      [] chain = "ethereum" /\ address \in {"0xbb", "0xde"} -> Some(PROXY_ABI)
      [] chain = "polygon-pos" /\ address = "0xaa" -> Some(POLYGON_ABI)
      [] OTHER -> None

Row(a, c, n, s) == [adresse_contrat |-> a, chaine_contrat |-> c, nom |-> n, symbole |-> s]

\* Rows the registry query can return (DISTINCT over the four columns).
Rows ==
    { Row("0xaa", "ethereum", "TokenA", "TKA"),
      Row("0xAA", "ethereum", "TokenA", "TKA"),
      Row("0xAA", "polygon-pos", "TokenA", "TKA"),
      Row("0xbb", "ethereum", "ProxyB", "PXB"),
      Row("0xdd", "ethereum", "Unknown", "UNK"),
      Row("0xde", "ethereum", "Manual", "MAN") }

\* The data blob of a log: whole 32-byte words and a ragged tail of bytes.
Data(ws, t) == [words |-> ws, tail |-> t]

RawLog(tx, li, a, b, ts, d) ==
    [transaction_hash |-> tx, log_index |-> li, address |-> a,
     block_number |-> b, topics |-> ts, data |-> d]

\* Raw logs the collector can have stored.
LogUniverse ==
    { RawLog("0xt1", 0, "0xaa", 1, << TRANSFER_TOPIC, 17, 18 >>, Data(<< 1000 >>, 0)),
      RawLog("0xt1", 1, "0xAA", 1, << TRANSFER_TOPIC_UPPER, 17, 18 >>, Data(<< >>, 31)),
      RawLog("0xt2", 0, "0xaa", 1, << UNKNOWN_TOPIC >>, Data(<< >>, 0)),
      RawLog("0xt3", 0, "0xaa", 3, << APPROVAL_TOPIC, 17, 19 >>, Data(<< 5 >>, 0)),
      RawLog("0xt4", 0, "0xbb", 1, << TRANSFER_TOPIC, 18, 17 >>, Data(<< 7 >>, 0)),
      RawLog("0xt4", 1, "0xbb", 1, << UPGRADED_TOPIC, 12 >>, Data(<< >>, 0)),
      RawLog("0xt5", 0, "0xdd", 1, << TRANSFER_TOPIC, 17, 18 >>, Data(<< 9 >>, 0)) }

\* Most raw logs in the table that Init enumerates.
MaxLogs == 3

\* Most runs of the worker in a behaviour of Spec.
MaxRuns == 2

\* Most failing external calls in a behaviour of Spec.
MaxFaults == 1

\* The identity of a raw log and of a decoded event.
Identity(r) == << r.transaction_hash, r.log_index >>

(***************************************************************************)
(* Signature matcher: get_event_abi.                                       *)
(***************************************************************************)
\* get_event_abi returning the last matching entry instead of the first.
get_event_abi_LastMatch(abi, topic0) ==
    LET hits == { i \in 1..Len(abi) :
                    /\ abi[i].type = "event"
                    /\ ~abi[i].anonymous
                    /\ Lower(Keccak(SignatureText(abi[i]))) = Lower(topic0) }
    IN  IF hits = {} THEN None
        ELSE Some(abi[CHOOSE i \in hits : \A j \in hits : j <= i])

RECURSIVE get_event_abi(_, _)
get_event_abi(abi, topic0) ==
    IF abi = << >> THEN None
    ELSE LET entry == Head(abi) IN
         IF entry.type /= "event" \/ entry.anonymous
         THEN get_event_abi(Tail(abi), topic0)
         ELSE IF Lower(Keccak(SignatureText(entry))) = Lower(topic0)
              THEN Some(entry)
              ELSE get_event_abi(Tail(abi), topic0)

(***************************************************************************)
(* Log decoder: web3's get_event_data as decode_log uses it, then the      *)
(* record decode_log builds.                                               *)
(***************************************************************************)
SelectInputs(inputs, ix) == SelectSeq(inputs, LAMBDA i : i.indexed = ix)

\* str() of a decoded value: a checksum address or a decimal integer.
StrValue(type, w) == IF type = "address" THEN "0x" \o ToString(w) ELSE ToString(w)

\* get_event_data raises when the topics do not pair with the indexed inputs
\* or when the data holds fewer bytes than the non-indexed inputs need.
DecodeRaises(event_abi, log) ==
    \/ Len(log.topics) - 1 /= Len(SelectInputs(event_abi.inputs, TRUE))
    \/ 32 * Len(log.data.words) + log.data.tail
         < 32 * Len(SelectInputs(event_abi.inputs, FALSE))

\* {k: str(v) for k, v in decoded["args"].items()} as key/value pairs:
\* the indexed arguments from topics[1..], then the others from the data.
DecodedArgs(event_abi, log) ==
    LET ixs == SelectInputs(event_abi.inputs, TRUE)
        nxs == SelectInputs(event_abi.inputs, FALSE)
    IN  [k \in 1..Len(ixs) |-> << ixs[k].name, StrValue(ixs[k].type, log.topics[k + 1]) >>]
        \o [k \in 1..Len(nxs) |-> << nxs[k].name, StrValue(nxs[k].type, log.data.words[k]) >>]

\* The keys the record literal of decode_log writes after **decoded_args: an
\* argument of one of these names is replaced by the log's own value.
LogKeys == {"block_number", "transaction_hash", "log_index", "contract_address"}

\* The value of key k in a dict built from key/value pairs: the last pair
\* with that key wins.
LastValue(pairs, k, default) ==
    IF \E i \in 1..Len(pairs) : pairs[i][1] = k
    THEN pairs[CHOOSE i \in 1..Len(pairs) :
                  /\ pairs[i][1] = k
                  /\ \A j \in i + 1..Len(pairs) : pairs[j][1] /= k][2]
    ELSE default

\* The dict {"event_name": ..., **decoded_args, "block_number": ..., ...}: its
\* fixed keys, and under args the argument keys that no fixed key replaces.
DecodedRecord(event_abi, log) ==
    [event_name |-> LastValue(DecodedArgs(event_abi, log), "event_name", event_abi.name),
     args |-> SelectSeq(DecodedArgs(event_abi, log),
                        LAMBDA p : p[1] \notin LogKeys \cup {"event_name"}),
     block_number |-> log.block_number,
     transaction_hash |-> log.transaction_hash,
     log_index |-> log.log_index,
     contract_address |-> Lower(log.address)]

\* decode_log with a placeholder record for a log that matches no event.
decode_log_placeholder(raw_log, abi) ==
    IF raw_log.topics = << >> THEN None
    ELSE LET event_abi == get_event_abi(abi, raw_log.topics[1]) IN
         IF event_abi = None
         THEN Some([event_name |-> "Unknown", args |-> << >>,
                    block_number |-> raw_log.block_number,
                    transaction_hash |-> raw_log.transaction_hash,
                    log_index |-> raw_log.log_index,
                    contract_address |-> Lower(raw_log.address)])
         ELSE IF DecodeRaises(event_abi[1], raw_log) THEN None
              ELSE Some(DecodedRecord(event_abi[1], raw_log))

decode_log(raw_log, abi) ==
    IF raw_log.topics = << >> THEN None
    ELSE LET event_abi == get_event_abi(abi, raw_log.topics[1]) IN
         IF event_abi = None THEN None
         ELSE IF DecodeRaises(event_abi[1], raw_log) THEN None
              ELSE Some(DecodedRecord(event_abi[1], raw_log))

\* record.update({'token_name': nom, 'token_symbol': symbole})
WithToken(record, nom, symbole) ==
    [event_name |-> record.event_name,
     args |-> SelectSeq(record.args, LAMBDA p : p[1] \notin {"token_name", "token_symbol"}),
     block_number |-> record.block_number,
     transaction_hash |-> record.transaction_hash,
     log_index |-> record.log_index,
     contract_address |-> record.contract_address,
     token_name |-> nom,
     token_symbol |-> symbole]

(***************************************************************************)
(* worker_event_labeler.py: the older worker's own matcher and decoder.    *)
(***************************************************************************)
\* Lines 57-65: only entries whose type is not "event" are passed over.
RECURSIVE labeler_get_event_abi(_, _)
labeler_get_event_abi(abi, topic0) ==
    IF abi = << >> THEN None
    ELSE LET entry == Head(abi) IN
         IF entry.type /= "event"
         THEN labeler_get_event_abi(Tail(abi), topic0)
         ELSE IF Lower(Keccak(SignatureText(entry))) = Lower(topic0)
              THEN Some(entry)
              ELSE labeler_get_event_abi(Tail(abi), topic0)

\* **decoded["args"]: the decoded values as they are, without str().
LabelerArgs(event_abi, row) ==
    LET ixs == SelectInputs(event_abi.inputs, TRUE)
        nxs == SelectInputs(event_abi.inputs, FALSE)
    IN  [k \in 1..Len(ixs) |-> << ixs[k].name, row.topics[k + 1] >>]
        \o [k \in 1..Len(nxs) |-> << nxs[k].name, row.data.words[k] >>]

\* Lines 84-91: the dict the labeler returns for a decoded log.
LabelerRecord(event_abi, row) ==
    [event_name |-> LastValue(LabelerArgs(event_abi, row), "event_name", event_abi.name),
     args |-> SelectSeq(LabelerArgs(event_abi, row),
                        LAMBDA p : p[1] \notin LogKeys \cup {"event_name"}),
     block_number |-> row.block_number,
     transaction_hash |-> row.transaction_hash,
     log_index |-> row.log_index,
     contract_address |-> Lower(row.address)]

\* What a call of a decoder did: whether it raised, what it returned when it
\* did not, and the topic0 of each get_event_abi call it made.
Returned(out, calls) == [raised |-> FALSE, out |-> out, matcher_calls |-> calls]

Raised(calls) == [raised |-> TRUE, out |-> None, matcher_calls |-> calls]

\* Lines 68-91 of worker_event_labeler.py.  The argument row["topics"][0] is
\* evaluated before get_event_abi is entered: on an empty list it raises
\* IndexError, which nothing in decode_log catches.
labeler_decode_log(row, abi) ==
    IF row.topics = << >> THEN Raised(<< >>)
    ELSE LET event_abi == labeler_get_event_abi(abi, row.topics[1]) IN
         IF event_abi = None THEN Returned(None, << row.topics[1] >>)
         ELSE IF DecodeRaises(event_abi[1], row)
              THEN Returned(None, << row.topics[1] >>)
              ELSE Returned(Some(LabelerRecord(event_abi[1], row)), << row.topics[1] >>)

\* Lines 129-190 of worker_3_1.py, with the calls of get_event_abi it makes:
\* none when the log has no topics (return at line 136), one otherwise
\* (line 150); every exception of the decoding is caught (line 184).
decode_log_run(raw_log, abi) ==
    Returned(decode_log(raw_log, abi),
             IF raw_log.topics = << >> THEN << >> ELSE << raw_log.topics[1] >>)

(***************************************************************************)
(* ABI resolver: fetch_abi_from_explorer and get_final_abi.  The outcome   *)
(* of each external call is an input: the storage read raises or returns   *)
(* the chain's word, an explorer request fails or returns the explorer's   *)
(* answer.                                                                 *)
(***************************************************************************)
\* ok: the request got the explorer's answer (fails: timeout, HTTP error,
\* missing API key).
fetch_abi_from_explorer(address, chain, ok) ==
    IF ok THEN VerifiedABI(chain, address) ELSE None

\* storage: what the read of IMPLEMENTATION_SLOT gave, None when it raised.
\* The implementation address is "0x" + storage_content.hex()[-40:], taken
\* when int(implementation_address, 16) != 0.
ImplementationOf(storage) ==
    IF storage /= None /\ storage[1].lo /= ZERO_ADDRESS
    THEN Some(storage[1].lo)
    ELSE None

\* get_final_abi consulting the override table only when the automatic
\* resolution found nothing.
get_final_abi_OverrideLast(address, chain, storage, implOk, ownOk) ==
    LET impl == ImplementationOf(storage)
        implAbi == IF impl = None THEN None
                   ELSE fetch_abi_from_explorer(impl[1], chain, implOk)
        ownAbi == fetch_abi_from_explorer(address, chain, ownOk)
        calls == (IF impl = None THEN << >> ELSE << impl[1] >>)
    IN  IF Truthy(implAbi)
        THEN [abi |-> implAbi, storage_read |-> TRUE, explorer_calls |-> calls]
        ELSE IF Truthy(ownAbi) \/ Lower(address) \notin DOMAIN ABI_MAPPING
             THEN [abi |-> ownAbi, storage_read |-> TRUE,
                   explorer_calls |-> calls \o << address >>]
             ELSE [abi |-> Some(ABI_MAPPING[Lower(address)]), storage_read |-> TRUE,
                   explorer_calls |-> calls \o << address >>]

\* get_final_abi giving up when the storage read raises.
get_final_abi_RpcErrorFatal(address, chain, storage, implOk, ownOk) ==
    IF Lower(address) \in DOMAIN ABI_MAPPING
    THEN [abi |-> Some(ABI_MAPPING[Lower(address)]), storage_read |-> FALSE,
          explorer_calls |-> << >>]
    ELSE IF storage = None
         THEN [abi |-> None, storage_read |-> TRUE, explorer_calls |-> << >>]
         ELSE LET impl == ImplementationOf(storage)
                  implAbi == IF impl = None THEN None
                             ELSE fetch_abi_from_explorer(impl[1], chain, implOk)
              IN  IF Truthy(implAbi)
                  THEN [abi |-> implAbi, storage_read |-> TRUE,
                        explorer_calls |-> << impl[1] >>]
                  ELSE [abi |-> fetch_abi_from_explorer(address, chain, ownOk),
                        storage_read |-> TRUE,
                        explorer_calls |-> (IF impl = None THEN << >> ELSE << impl[1] >>)
                                           \o << address >>]

\* get_final_abi without the proxy detection.
get_final_abi_NoProxy(address, chain, storage, implOk, ownOk) ==
    IF Lower(address) \in DOMAIN ABI_MAPPING
    THEN [abi |-> Some(ABI_MAPPING[Lower(address)]), storage_read |-> FALSE,
          explorer_calls |-> << >>]
    ELSE [abi |-> fetch_abi_from_explorer(address, chain, ownOk),
          storage_read |-> FALSE, explorer_calls |-> << address >>]

\* The result of get_final_abi and the calls it made:
\* [abi, storage_read, explorer_calls (addresses requested, in order)].
get_final_abi(address, chain, storage, implOk, ownOk) ==
    IF Lower(address) \in DOMAIN ABI_MAPPING
    THEN [abi |-> Some(ABI_MAPPING[Lower(address)]), storage_read |-> FALSE,
          explorer_calls |-> << >>]
    ELSE LET impl == ImplementationOf(storage)
             implAbi == IF impl = None THEN None
                        ELSE fetch_abi_from_explorer(impl[1], chain, implOk)
         IN  IF Truthy(implAbi)
             THEN [abi |-> implAbi, storage_read |-> TRUE,
                   explorer_calls |-> << impl[1] >>]
             ELSE [abi |-> fetch_abi_from_explorer(address, chain, ownOk),
                   storage_read |-> TRUE,
                   explorer_calls |-> (IF impl = None THEN << >> ELSE << impl[1] >>)
                                      \o << address >>]

(***************************************************************************)
(* State of the worker and of the tables it reads and writes.              *)
(***************************************************************************)
VARIABLES
    registry,             \* the distinct rows the registry query selects
    logs_raw,             \* the raw-log table
    labeled_events,       \* the decoded-event sink, in append order
    abi_cache,            \* module-level dict: lower-cased address -> ABI (None: no entry)
    pc,                   \* "idle", "contract", "query", "logs", "flush"
    web3_providers,       \* chains whose RPC node is connected in this run
    contracts,            \* contracts_to_process_df
    idx,                  \* iterrows position in contracts
    abi,                  \* the ABI of the contract being processed
    raw_logs_df,          \* the raw logs returned for that contract
    pos,                  \* iterrows position in raw_logs_df
    all_decoded_records,
    success_count,
    failure_count,
    result,               \* what the last finished run returned: "True", "False"
                          \* ("none": no run has finished)
    runs,                 \* runs started so far
    faults,               \* external calls that failed so far
    last_call,            \* the get_final_abi call of the step just taken, or None
    run,                  \* history of the run in progress
    prev,                 \* history of the last two finished runs
    call,                 \* the last direct call of a function of the workers, or None
    cg_fn,                \* CoinGeckoClient: the method called ("none": no call yet)
    cg_pc,                \* "idle", "loop" (inside the for loop of _get), "done"
    retries,              \* _get's parameter
    attempt,              \* _get's loop variable
    backoff,              \* _get's local
    requests,             \* session.get calls made by the call
    responses,            \* the responses those calls received, in order
    sleeps,               \* the asyncio.sleep durations of the call, in order
    outcome,              \* how the call ended: returned a value, or raised
    source_table,         \* eth sync: the rows of the public source table
    dest_table,           \* how many times the destination holds each source row
    sync_pc,              \* "idle", "extract", "ingest"
    last_block,           \* sync_table's local
    MAX_BLOCK_RANGE,      \* ETH_SYNC_MAX_BLOCKS as the running interpreter read it
    sync_df,              \* df: the rows extract_new_data returned
    sync_runs,            \* runs of sync_table started so far
    sync_faults,          \* queries and loads of the sync that failed so far
    lab_pc,               \* event labeler: "idle", "fetch", "batch", "done", "raised"
    lab_logs,             \* the rows of LOGS_TABLE the labeler reads
    lab_events,           \* the rows of DEST_TABLE the labeler loaded, in order
    lab_mapping,          \* ABI_MAPPING of the running interpreter
    raw_logs,             \* the batch fetch_raw_logs returned
    tg_pc,                \* fetch_swaps: "idle", "loop", "returned"
    tg_limit,             \* its limit argument
    skip,                 \* its local skip
    all_swaps,            \* its local all_swaps
    pages                 \* the pages session.execute returned to it, in order

vars ==
    << registry, logs_raw, labeled_events, abi_cache, pc, web3_providers, contracts,
       idx, abi, raw_logs_df, pos, all_decoded_records, success_count, failure_count,
       result, runs, faults, last_call, run, prev, call,
       cg_fn, cg_pc, retries, attempt, backoff, requests, responses, sleeps, outcome,
       source_table, dest_table, sync_pc, last_block, MAX_BLOCK_RANGE, sync_df, sync_runs,
       sync_faults, lab_pc, lab_logs, lab_events, lab_mapping, raw_logs,
       tg_pc, tg_limit, skip, all_swaps, pages >>

tables == << registry, logs_raw >>

\* What run_label_events_worker of worker_3_1 neither reads nor writes.
coingecko ==
    << cg_fn, cg_pc, retries, attempt, backoff, requests, responses, sleeps, outcome >>

eth_sync ==
    << source_table, dest_table, sync_pc, last_block, MAX_BLOCK_RANGE, sync_df, sync_runs,
       sync_faults >>

labeler == << lab_pc, lab_logs, lab_events, lab_mapping, raw_logs >>

thegraph == << tg_pc, tg_limit, skip, all_swaps, pages >>

outside == << call, coingecko, eth_sync, labeler, thegraph >>

counters == << all_decoded_records, success_count, failure_count >>

\* Highest block the public dataset comes to hold.
MaxBlock == 3

\* Most rows of one block in the source table.
MaxRowsPerBlock == 2

\* Most runs of sync_table in a behaviour.
MaxSyncRuns == 3

\* Most failing queries or loads in a behaviour.
MaxSyncFaults == 1

\* Largest ETH_SYNC_MAX_BLOCKS a run is started with (0: no limit).
MaxBlockRange == 1

\* A source row: its block_number and its rank in the block.
SourceRows == { << b, k >> : b \in 1..MaxBlock, k \in 1..MaxRowsPerBlock }

\* How a call of the CoinGecko client ended.
Pending == [kind |-> "pending", value |-> None]

ReturnValue(v) == [kind |-> "returned", value |-> v]

Raise(e) == [kind |-> "raised", value |-> Some(e)]

\* The orders in which a query without ORDER BY can return the rows S.
Orderings(S) ==
    { q \in [1..Cardinality(S) -> S] : \A i, j \in 1..Cardinality(S) : q[i] = q[j] => i = j }

Min(a, b) == IF a < b THEN a ELSE b

\* df.head(n)
Head_n(q, n) == SubSeq(q, 1, Min(n, Len(q)))

\* Lower-cased addresses of the registry rows: the keys abi_cache can hold.
Addresses == { Lower(r.adresse_contrat) : r \in Rows }

\* abi_cache = {} at import.
EmptyCache == [a \in Addresses |-> None]

\* History of a run: whether every external call succeeded so far, the
\* addresses and chains get_final_abi was called for and whether it found an
\* ABI, whether
\* a raw-log query left rows beyond its LIMIT, the sink's length at the start.
NewRun(providers) ==
    [clean |-> providers = Chains, resolutions |-> << >>, truncated |-> FALSE,
     sink_at_start |-> Len(labeled_events), abort |-> "none"]

\* No run is in progress.
NoHistory ==
    [clean |-> FALSE, resolutions |-> << >>, truncated |-> FALSE, sink_at_start |-> 0,
     abort |-> "none"]

\* Summary of a finished run.
NoRun ==
    [ran |-> FALSE, clean |-> FALSE, truncated |-> FALSE, flush_failed |-> FALSE,
     result |-> "none", batch |-> << >>, decoded |-> {}, appended |-> 0,
     abort |-> "none"]

\* What identifies a decoded record, and the contract it was decoded for.
Decoded(records) ==
    { << records[k].transaction_hash, records[k].log_index,
         records[k].contract_address >> : k \in 1..Len(records) }

\* The collector watches the registry's addresses only.
Init ==
    /\ registry \in { t \in SUBSET Rows : Cardinality(t) <= MaxRegistry }
    /\ logs_raw \in { t \in SUBSET LogUniverse : Cardinality(t) <= MaxLogs }
    /\ \A l \in logs_raw :
          \E r \in registry : Lower(r.adresse_contrat) = Lower(l.address)
    /\ labeled_events = << >>
    /\ abi_cache = EmptyCache
    /\ pc = "idle"
    /\ web3_providers = {}
    /\ contracts = << >>
    /\ idx = 1
    /\ abi = << >>
    /\ raw_logs_df = << >>
    /\ pos = 1
    /\ all_decoded_records = << >>
    /\ success_count = 0
    /\ failure_count = 0
    /\ result = "none"
    /\ runs = 0
    /\ faults = 0
    /\ last_call = None
    /\ run = NoHistory
    /\ prev = [last |-> NoRun, before |-> NoRun]
    /\ call = None
    /\ cg_fn = "none"
    /\ cg_pc = "idle"
    /\ retries = 0
    /\ attempt = 0
    /\ backoff = 1
    /\ requests = 0
    /\ responses = << >>
    /\ sleeps = << >>
    /\ outcome = Pending
    /\ source_table = {}
    /\ dest_table = [r \in SourceRows |-> 0]
    /\ sync_pc = "idle"
    /\ last_block = 0
    /\ MAX_BLOCK_RANGE = 0
    /\ sync_df = {}
    /\ sync_runs = 0
    /\ sync_faults = 0
    /\ lab_pc = "idle"
    /\ lab_logs = {}
    /\ lab_events = << >>
    /\ lab_mapping = << >>
    /\ raw_logs = << >>
    /\ tg_pc = "idle"
    /\ tg_limit = 0
    /\ skip = 0
    /\ all_swaps = << >>
    /\ pages = << >>

(***************************************************************************)
(* run_label_events_worker, one action per step of the run.                *)
(***************************************************************************)
\* The run returns res and the interpreter that the scheduler started for it
\* exits (abi_cache is a module-level dict: the next run finds it empty).
\* h is the run's history, sink the sink it leaves.
EndRun(res, flushFailed, h, sink) ==
    /\ result' = res
    /\ abi_cache' = EmptyCache
    /\ pc' = "idle"
    /\ labeled_events' = sink
    /\ prev' = [last |-> [ran |-> TRUE, clean |-> h.clean, truncated |-> h.truncated,
                          flush_failed |-> flushFailed, result |-> res,
                          batch |-> contracts,
                          decoded |-> Decoded(all_decoded_records),
                          appended |-> Len(sink) - h.sink_at_start,
                          abort |-> h.abort],
                before |-> prev.last]
    /\ run' = NoHistory
    /\ contracts' = << >>
    /\ idx' = 1
    /\ abi' = << >>
    /\ raw_logs_df' = << >>
    /\ pos' = 1
    /\ last_call' = None
    /\ web3_providers' = {}

\* Lines 200-247: connect the RPC nodes, read the registry, reset the counters.
StartRunWith(providers) ==
    /\ pc = "idle"
    /\ \E df \in { Head_n(q, BATCH_SIZE) : q \in Orderings(registry) } :
       IF df = << >>
       THEN /\ EndRun("True", FALSE, NewRun(providers), labeled_events)
            /\ UNCHANGED counters
       ELSE /\ web3_providers' = providers
            /\ contracts' = df
            /\ idx' = 1
            /\ pc' = "contract"
            /\ run' = NewRun(providers)
            /\ all_decoded_records' = << >>
            /\ success_count' = 0
            /\ failure_count' = 0
            /\ UNCHANGED << labeled_events, abi_cache, abi, raw_logs_df, pos, result,
                            prev, last_call >>
    /\ UNCHANGED << tables, outside >>

\* Every configured RPC node is connected.
StartRun ==
    /\ runs < MaxRuns
    /\ runs' = runs + 1
    /\ StartRunWith(Chains)
    /\ UNCHANGED faults

\* The scheduler starts the worker again, without end.
Rerun ==
    /\ StartRunWith(Chains)
    /\ UNCHANGED << runs, faults >>

\* Some configured RPC node is not connected.
StartRunDegraded ==
    /\ runs < MaxRuns
    /\ faults < MaxFaults
    /\ runs' = runs + 1
    /\ faults' = faults + 1
    /\ \E providers \in (SUBSET Chains) \ {{}, Chains} : StartRunWith(providers)

\* What makes a run return False, or raise, before its contract loop: lines
\* 194-196 (configuration missing), 205-207 (no RPC node connected), 214-223
\* (get_table or create_table of the sink raises) and 237-241 (the registry
\* query raises).
StartAborts == { "config", "no_rpc", "sink_unreachable", "registry" }

StartRunAbort ==
    /\ pc = "idle"
    /\ runs < MaxRuns
    /\ faults < MaxFaults
    /\ runs' = runs + 1
    /\ faults' = faults + 1
    /\ \E cause \in StartAborts :
          EndRun("False", FALSE, [NewRun({}) EXCEPT !.clean = FALSE, !.abort = cause],
                 labeled_events)
    /\ UNCHANGED << tables, outside, counters >>

\* Lines 252-257: the row being processed.
address == Lower(contracts[idx].adresse_contrat)

chain == contracts[idx].chaine_contrat

\* continue, or the end of the for loop over the contracts.
NextContract ==
    /\ idx' = idx + 1
    /\ pc' = IF idx + 1 > Len(contracts) THEN "flush" ELSE "contract"
    /\ abi' = << >>
    /\ raw_logs_df' = << >>
    /\ pos' = 1

\* Lines 260-263: no RPC connection for the row's chain.
SkipContract ==
    /\ pc = "contract"
    /\ chain \notin web3_providers
    /\ NextContract
    /\ last_call' = None
    /\ UNCHANGED << tables, outside, labeled_events, abi_cache, web3_providers, contracts,
                    counters, result, runs, faults, run, prev >>

\* Lines 265-266: abi_cache holds a non-empty ABI for the address.
CacheHit ==
    /\ pc = "contract"
    /\ chain \in web3_providers
    /\ Truthy(abi_cache[address])
    /\ abi' = abi_cache[address][1]
    /\ pc' = "query"
    /\ last_call' = None
    /\ UNCHANGED << tables, outside, labeled_events, abi_cache, web3_providers, contracts, idx,
                    raw_logs_df, pos, counters, result, runs, faults, run, prev >>

\* Whether a call that get_final_abi made failed, given the calls' outcomes.
CallFailed(a, c, storage, implOk, ownOk) ==
    /\ Lower(a) \notin DOMAIN ABI_MAPPING
    /\ \/ storage = None
       \/ ImplementationOf(storage) /= None /\ ~implOk
       \/ /\ ~ownOk
          /\ ~Truthy(IF ImplementationOf(storage) = None THEN None
                     ELSE fetch_abi_from_explorer(ImplementationOf(storage)[1], c, implOk))

\* Lines 266-272 without the look-up in abi_cache.
ResolveWith_NoCacheCheck(storage, implOk, ownOk) ==
    /\ pc = "contract"
    /\ chain \in web3_providers
    /\ LET out == get_final_abi(address, chain, storage, implOk, ownOk) IN
       /\ run' = [run EXCEPT
                    !.clean = @ /\ ~CallFailed(address, chain, storage, implOk, ownOk),
                    !.resolutions = Append(@, << address, chain, Truthy(out.abi) >>)]
       /\ last_call' = Some([address |-> address, chain |-> chain, storage |-> storage,
                             implOk |-> implOk, ownOk |-> ownOk, out |-> out])
       /\ IF Truthy(out.abi)
          THEN /\ abi_cache' = [abi_cache EXCEPT ![address] = out.abi]
               /\ abi' = out.abi[1]
               /\ pc' = "query"
               /\ UNCHANGED << idx, raw_logs_df, pos >>
          ELSE /\ NextContract
               /\ UNCHANGED abi_cache
    /\ UNCHANGED << tables, outside, labeled_events, web3_providers, contracts, counters,
                    result, runs, prev >>

\* Lines 266-272 with a return False in place of the continue.
ResolveWith_ReturnsOnNoABI(storage, implOk, ownOk) ==
    /\ pc = "contract"
    /\ chain \in web3_providers
    /\ ~Truthy(abi_cache[address])
    /\ LET out == get_final_abi(address, chain, storage, implOk, ownOk) IN
       IF Truthy(out.abi)
       THEN /\ run' = [run EXCEPT
                         !.clean = @ /\ ~CallFailed(address, chain, storage, implOk, ownOk),
                         !.resolutions = Append(@, << address, chain, TRUE >>)]
            /\ last_call' = Some([address |-> address, chain |-> chain,
                                  storage |-> storage, implOk |-> implOk,
                                  ownOk |-> ownOk, out |-> out])
            /\ abi_cache' = [abi_cache EXCEPT ![address] = out.abi]
            /\ abi' = out.abi[1]
            /\ pc' = "query"
            /\ UNCHANGED << idx, raw_logs_df, pos, labeled_events, web3_providers,
                            contracts, result, prev >>
       ELSE EndRun("False", FALSE,
                   [run EXCEPT !.clean = @ /\ ~CallFailed(address, chain, storage,
                                                          implOk, ownOk)],
                   labeled_events)
    /\ UNCHANGED << tables, outside, counters, runs >>

\* Lines 266-272: cache miss, get_final_abi, then skip the contract or cache.
ResolveWith(storage, implOk, ownOk) ==
    /\ pc = "contract"
    /\ chain \in web3_providers
    /\ ~Truthy(abi_cache[address])
    /\ LET out == get_final_abi(address, chain, storage, implOk, ownOk) IN
       /\ run' = [run EXCEPT
                    !.clean = @ /\ ~CallFailed(address, chain, storage, implOk, ownOk),
                    !.resolutions = Append(@, << address, chain, Truthy(out.abi) >>)]
       /\ last_call' = Some([address |-> address, chain |-> chain, storage |-> storage,
                             implOk |-> implOk, ownOk |-> ownOk, out |-> out])
       /\ IF Truthy(out.abi)
          THEN /\ abi_cache' = [abi_cache EXCEPT ![address] = out.abi]
               /\ abi' = out.abi[1]
               /\ pc' = "query"
               /\ UNCHANGED << idx, raw_logs_df, pos >>
          ELSE /\ NextContract
               /\ UNCHANGED abi_cache
    /\ UNCHANGED << tables, outside, labeled_events, web3_providers, contracts, counters,
                    result, runs, prev >>

\* Every call of the resolution succeeds.
ResolveABI ==
    /\ pc = "contract"
    /\ ResolveWith(Some(StorageAt(chain, address)), TRUE, TRUE)
    /\ UNCHANGED faults

\* The storage read raises or an explorer request fails.
ResolveABIFault ==
    /\ pc = "contract"
    /\ faults < MaxFaults
    /\ faults' = faults + 1
    /\ \E rpcOk, implOk, ownOk \in BOOLEAN :
          LET storage == IF rpcOk THEN Some(StorageAt(chain, address)) ELSE None IN
          /\ CallFailed(address, chain, storage, implOk, ownOk)
          /\ ResolveWith(storage, implOk, ownOk)

\* The raw-log query without its anti-join.
Unprocessed_NoAntiJoin(a) == { l \in logs_raw : Lower(l.address) = a }

\* The anti-join of lines 276-282: raw logs of the address with no sink row
\* of the same (transaction_hash, log_index).
Unprocessed(a) ==
    { l \in logs_raw :
        /\ Lower(l.address) = a
        /\ ~\E k \in 1..Len(labeled_events) :
               /\ labeled_events[k].transaction_hash = l.transaction_hash
               /\ labeled_events[k].log_index = l.log_index }

\* ORDER BY lr.block_number: every order of S by ascending block_number.
OrderedByBlock(S) ==
    { q \in [1..Cardinality(S) -> S] :
        /\ \A i, j \in 1..Cardinality(S) : q[i] = q[j] => i = j
        /\ \A i, j \in 1..Cardinality(S) : i < j => q[i].block_number <= q[j].block_number }

\* Lines 283-288: the raw-log query succeeds.
QueryLogs ==
    /\ pc = "query"
    /\ \E q \in OrderedByBlock(Unprocessed(address)) :
          /\ run' = [run EXCEPT !.truncated = @ \/ Len(q) > LIMIT]
          /\ IF q = << >>
             THEN NextContract
             ELSE /\ raw_logs_df' = Head_n(q, LIMIT)
                  /\ pos' = 1
                  /\ pc' = "logs"
                  /\ UNCHANGED << idx, abi >>
    /\ last_call' = None
    /\ UNCHANGED << tables, outside, labeled_events, abi_cache, web3_providers, contracts,
                    counters, result, runs, faults, prev >>

\* A loop that returns False on any failure of the raw-log query.
QueryLogsFail_Aborts ==
    /\ pc = "query"
    /\ faults < MaxFaults
    /\ faults' = faults + 1
    /\ EndRun("False", FALSE, [run EXCEPT !.clean = FALSE, !.abort = "logs_query"],
              labeled_events)
    /\ UNCHANGED << tables, outside, counters, runs >>

\* Lines 289, 293-294: the raw-log query raises: the contract is skipped.
QueryLogsFail ==
    /\ pc = "query"
    /\ faults < MaxFaults
    /\ faults' = faults + 1
    /\ run' = [run EXCEPT !.clean = FALSE]
    /\ NextContract
    /\ last_call' = None
    /\ UNCHANGED << tables, outside, labeled_events, abi_cache, web3_providers, contracts,
                    counters, result, runs, prev >>

\* Lines 290-292: the warehouse answers that the raw-log table is not found.
QueryLogsTableMissing ==
    /\ pc = "query"
    /\ faults < MaxFaults
    /\ faults' = faults + 1
    /\ EndRun("False", FALSE, [run EXCEPT !.clean = FALSE, !.abort = "logs_table"],
              labeled_events)
    /\ UNCHANGED << tables, outside, counters, runs >>

\* The loop of lines 296-304 without the else branch that counts a failure.
DecodeLog_FailureNotCounted ==
    /\ pc = "logs"
    /\ LET record == decode_log(raw_logs_df[pos], abi) IN
       IF record /= None
       THEN /\ success_count' = success_count + 1
            /\ all_decoded_records' =
                  Append(all_decoded_records,
                         WithToken(record[1], contracts[idx].nom, contracts[idx].symbole))
            /\ UNCHANGED failure_count
       ELSE UNCHANGED << failure_count, success_count, all_decoded_records >>
    /\ IF pos = Len(raw_logs_df)
       THEN NextContract
       ELSE /\ pos' = pos + 1
            /\ UNCHANGED << pc, idx, abi, raw_logs_df >>
    /\ UNCHANGED << tables, outside, labeled_events, abi_cache, web3_providers, contracts,
                    result, runs, faults, last_call, run, prev >>

\* Lines 296-304: one iteration of the loop over the raw logs.
DecodeLog ==
    /\ pc = "logs"
    /\ LET record == decode_log(raw_logs_df[pos], abi) IN
       IF record /= None
       THEN /\ success_count' = success_count + 1
            /\ all_decoded_records' =
                  Append(all_decoded_records,
                         WithToken(record[1], contracts[idx].nom, contracts[idx].symbole))
            /\ UNCHANGED failure_count
       ELSE /\ failure_count' = failure_count + 1
            /\ UNCHANGED << success_count, all_decoded_records >>
    /\ IF pos = Len(raw_logs_df)
       THEN NextContract
       ELSE /\ pos' = pos + 1
            /\ UNCHANGED << pc, idx, abi, raw_logs_df >>
    /\ UNCHANGED << tables, outside, labeled_events, abi_cache, web3_providers, contracts,
                    result, runs, faults, last_call, run, prev >>

\* Lines 306-309: nothing was decoded: return True without an upload.
FinishEmpty ==
    /\ pc = "flush"
    /\ all_decoded_records = << >>
    /\ EndRun("True", FALSE, run, labeled_events)
    /\ UNCHANGED << tables, outside, counters, runs, faults >>

\* A load with write_disposition WRITE_TRUNCATE.
FlushOK_WriteTruncate ==
    /\ pc = "flush"
    /\ all_decoded_records /= << >>
    /\ EndRun("True", FALSE, run, all_decoded_records)
    /\ UNCHANGED << tables, outside, counters, runs, faults >>

\* Lines 311-318, 323-324: one WRITE_APPEND load of every decoded record.
FlushOK ==
    /\ pc = "flush"
    /\ all_decoded_records /= << >>
    /\ EndRun("True", FALSE, run, labeled_events \o all_decoded_records)
    /\ UNCHANGED << tables, outside, counters, runs, faults >>

\* A load that raises after it has written the first record.
FlushFail_PartialWrite ==
    /\ pc = "flush"
    /\ all_decoded_records /= << >>
    /\ faults < MaxFaults
    /\ faults' = faults + 1
    /\ EndRun("False", TRUE, [run EXCEPT !.clean = FALSE, !.abort = "sink_write"],
              Append(labeled_events, all_decoded_records[1]))
    /\ UNCHANGED << tables, outside, counters, runs >>

\* Lines 319-321: the load raises: nothing is appended, return False.
FlushFail ==
    /\ pc = "flush"
    /\ all_decoded_records /= << >>
    /\ faults < MaxFaults
    /\ faults' = faults + 1
    /\ EndRun("False", TRUE, [run EXCEPT !.clean = FALSE, !.abort = "sink_write"],
              labeled_events)
    /\ UNCHANGED << tables, outside, counters, runs >>

\* The steps of a run, after its start, whose external calls all succeed.
RunStep ==
    \/ CacheHit
    \/ ResolveABI
    \/ QueryLogs
    \/ DecodeLog
    \/ FinishEmpty
    \/ FlushOK

\* The steps in which an external call fails.
Fault ==
    \/ StartRunDegraded
    \/ StartRunAbort
    \/ SkipContract
    \/ ResolveABIFault
    \/ QueryLogsFail
    \/ QueryLogsTableMissing
    \/ FlushFail

Next == StartRun \/ RunStep \/ Fault

Spec == Init /\ [][Next]_vars

NextOK == Rerun \/ RunStep

\* Most registry rows in the initial states of FairSpec.
MaxFairRegistry == 2

FairInit == Init /\ Cardinality(registry) <= MaxFairRegistry

\* The scheduler runs the worker again and again and every external call
\* succeeds.
FairSpec == FairInit /\ [][NextOK]_vars /\ WF_vars(Rerun \/ RunStep)

(***************************************************************************)
(* Direct calls of the functions, on arguments drawn from bounded sets:    *)
(* each behaviour makes one call.                                          *)
(***************************************************************************)
\* An event with the signature of Transfer whose inputs carry other names
\* and no indexed flag, and one flagged anonymous.
TransferUnindexed ==
    Event("Transfer",
          << In("src", "address", FALSE), In("dst", "address", FALSE),
             In("wad", "uint256", FALSE) >>, FALSE)

AnonymousTransfer ==
    Event("Transfer",
          << In("from", "address", TRUE), In("to", "address", TRUE),
             In("value", "uint256", FALSE) >>, TRUE)

\* An event with the signature of Transfer whose first input is named
\* event_name and whose last input is named block_number.
ClashingTransfer ==
    Event("Transfer",
          << In("event_name", "address", TRUE), In("to", "address", TRUE),
             In("block_number", "uint256", FALSE) >>, FALSE)

AbiEntries ==
    { ConstructorEntry, ApprovalEvent, TransferEvent, TransferUnindexed,
      AnonymousTransfer, ClashingTransfer }

\* Longest ABI a direct call is given.
MaxAbiLen == 3

ABIs == UNION { [1..n -> AbiEntries] : n \in 0..MaxAbiLen }

Topic0s == { TRANSFER_TOPIC, TRANSFER_TOPIC_UPPER, APPROVAL_TOPIC, UNKNOWN_TOPIC }

\* A raw log without any topic (an anonymous event without indexed input).
EmptyTopicsLog == RawLog("0xt6", 0, "0xaa", 2, << >>, Data(<< 3 >>, 0))

DirectLogs == LogUniverse \cup { EmptyTopicsLog }

DirectAddresses == { "0xaa", "0xbb", "0xdd", "0xde", "0xDE" }

\* What the read of the implementation slot can give: it raises (None), or
\* it returns a word.
StorageReads ==
    { None } \cup { Some(Word(h, l)) : h \in {0, 1}, l \in {ZERO_ADDRESS, "0xcc", "0xee"} }

worker ==
    << registry, logs_raw, labeled_events, abi_cache, pc, web3_providers, contracts,
       idx, abi, raw_logs_df, pos, all_decoded_records, success_count, failure_count,
       result, runs, faults, last_call, run, prev >>

CallGetEventAbi ==
    /\ call = None
    /\ \E a \in ABIs, t \in Topic0s :
          call' = Some([fn |-> "worker_3_1.get_event_abi", abi |-> a, topic0 |-> t,
                        out |-> get_event_abi(a, t)])
    /\ UNCHANGED << worker, labeler, thegraph, coingecko, eth_sync >>

CallLabelerGetEventAbi ==
    /\ call = None
    /\ \E a \in ABIs, t \in Topic0s :
          call' = Some([fn |-> "worker_event_labeler.get_event_abi", abi |-> a,
                        topic0 |-> t, out |-> labeler_get_event_abi(a, t)])
    /\ UNCHANGED << worker, labeler, thegraph, coingecko, eth_sync >>

CallDecodeLog ==
    /\ call = None
    /\ \E l \in DirectLogs, a \in ABIs :
          call' = Some([fn |-> "worker_3_1.decode_log", row |-> l, abi |-> a,
                        did |-> decode_log_run(l, a)])
    /\ UNCHANGED << worker, labeler, thegraph, coingecko, eth_sync >>

CallLabelerDecodeLog ==
    /\ call = None
    /\ \E l \in DirectLogs, a \in ABIs :
          call' = Some([fn |-> "worker_event_labeler.decode_log", row |-> l, abi |-> a,
                        did |-> labeler_decode_log(l, a)])
    /\ UNCHANGED << worker, labeler, thegraph, coingecko, eth_sync >>

CallGetFinalAbi ==
    /\ call = None
    /\ \E a \in DirectAddresses, c \in Chains, storage \in StorageReads,
          implOk, ownOk \in BOOLEAN :
          call' = Some([fn |-> "get_final_abi", address |-> a, chain |-> c,
                        storage |-> storage, implOk |-> implOk, ownOk |-> ownOk,
                        out |-> get_final_abi(a, c, storage, implOk, ownOk)])
    /\ UNCHANGED << worker, labeler, thegraph, coingecko, eth_sync >>

DirectInit == Init /\ registry = {} /\ logs_raw = {}

DirectNext ==
    \/ CallGetEventAbi
    \/ CallLabelerGetEventAbi
    \/ CallDecodeLog
    \/ CallLabelerDecodeLog
    \/ CallGetFinalAbi

DirectSpec == DirectInit /\ [][DirectNext]_vars

(***************************************************************************)
(* clients/coingecko.py: CoinGeckoClient._get and token_details.           *)
(***************************************************************************)
\* retries: int = 3
DefaultRetries == 3

\* Largest retries a direct call of _get is given.
MaxRetries == 4

\* resp.status == 429 or 500 <= resp.status < 600
Retryable(status) == status = 429 \/ (500 <= status /\ status < 600)

\* A response: its status, and what resp.json() gives for its body (None: the
\* body is not valid JSON and resp.json() raises).
Response(status, json) == [status |-> status, json |-> json]

Responses ==
    { Response(200, Some("{id: bitcoin}")), Response(200, None),
      Response(404, Some("{error: coin not found}")),
      Response(429, None), Response(503, None) }

\* session.get raising instead of answering: an exception that is not a
\* ClientResponseError, and TooManyRedirects, which is one (status 302).
Failures == { "ClientConnectionError", "TooManyRedirects" }

\* Lines 82-84: the call enters _get; range(0) leaves the loop at once.
StartGet(fn, n) ==
    /\ cg_pc = "idle"
    /\ cg_fn' = fn
    /\ retries' = n
    /\ attempt' = 0
    /\ backoff' = 1
    /\ requests' = 0
    /\ responses' = << >>
    /\ sleeps' = << >>
    /\ IF n = 0
       THEN cg_pc' = "done" /\ outcome' = Raise("RuntimeError")
       ELSE cg_pc' = "loop" /\ outcome' = Pending
    /\ UNCHANGED << worker, labeler, thegraph, call, eth_sync >>

\* Lines 140-149: return await self._get(f"/coins/{token_id}", params)
token_details ==
    /\ cg_pc = "idle"
    /\ StartGet("token_details", DefaultRetries)

\* _get called with an explicit retries.
_get ==
    /\ cg_pc = "idle"
    /\ \E n \in 0..MaxRetries : StartGet("_get", n)

\* The loop iteration of a _get that makes one attempt more than retries.
GetResponds_ExtraAttempt(r) ==
    /\ cg_pc = "loop"
    /\ requests' = requests + 1
    /\ responses' = Append(responses, r)
    /\ IF Retryable(r.status)
       THEN \* raise ClientResponseError, caught: sleep, double, next attempt
            /\ sleeps' = Append(sleeps, backoff)
            /\ backoff' = backoff * 2
            /\ attempt' = attempt + 1
            /\ IF attempt + 1 <= retries
               THEN UNCHANGED << cg_pc, outcome >>
               ELSE cg_pc' = "done" /\ outcome' = Raise("RuntimeError")
       ELSE /\ cg_pc' = "done"
            /\ outcome' = IF r.status # 200 THEN ReturnValue(None)
                          ELSE IF r.json = None
                               THEN \* resp.json() raised, caught at line 104
                                    ReturnValue(None)
                               ELSE ReturnValue(r.json)
            /\ UNCHANGED << sleeps, backoff, attempt >>
    /\ UNCHANGED << worker, labeler, thegraph, call, eth_sync, cg_fn, retries >>

\* One iteration of the for loop in which session.get answers with r.
GetResponds(r) ==
    /\ cg_pc = "loop"
    /\ requests' = requests + 1
    /\ responses' = Append(responses, r)
    /\ IF Retryable(r.status)
       THEN \* raise ClientResponseError, caught: sleep, double, next attempt
            /\ sleeps' = Append(sleeps, backoff)
            /\ backoff' = backoff * 2
            /\ attempt' = attempt + 1
            /\ IF attempt + 1 < retries
               THEN UNCHANGED << cg_pc, outcome >>
               ELSE cg_pc' = "done" /\ outcome' = Raise("RuntimeError")
       ELSE /\ cg_pc' = "done"
            /\ outcome' = IF r.status # 200 THEN ReturnValue(None)
                          ELSE IF r.json = None
                               THEN \* resp.json() raised, caught at line 104
                                    ReturnValue(None)
                               ELSE ReturnValue(r.json)
            /\ UNCHANGED << sleeps, backoff, attempt >>
    /\ UNCHANGED << worker, labeler, thegraph, call, eth_sync, cg_fn, retries >>

GetResponse ==
    /\ cg_pc = "loop"
    /\ \E r \in Responses : GetResponds(r)

\* One iteration in which session.get raises f: only ClientResponseError is
\* caught, and one whose status is neither 429 nor 5xx is raised again.
GetFailure ==
    /\ cg_pc = "loop"
    /\ \E f \in Failures :
          /\ outcome' = Raise(f)
          /\ responses' = Append(responses, Response(0, None))
    /\ requests' = requests + 1
    /\ cg_pc' = "done"
    /\ UNCHANGED << worker, labeler, thegraph, call, eth_sync, cg_fn, retries, attempt, backoff, sleeps >>

CoinGeckoNext == token_details \/ _get \/ GetResponse \/ GetFailure

CoinGeckoSpec == DirectInit /\ [][CoinGeckoNext]_vars

(***************************************************************************)
(* workers/worker_eth_sync.py: sync_table for one of the four tables.      *)
(***************************************************************************)
Max(S) == CHOOSE x \in S : \A y \in S : y <= x

\* The public dataset receives the rows of its next block.
NewBlock ==
    /\ LET head == IF source_table = {} THEN 0 ELSE Max({ r[1] : r \in source_table })
       IN  /\ head < MaxBlock
           /\ \E n \in 1..MaxRowsPerBlock :
                 source_table' = source_table \cup { << head + 1, k >> : k \in 1..n }
    /\ UNCHANGED << worker, labeler, thegraph, call, coingecko, dest_table, sync_pc, last_block,
                    MAX_BLOCK_RANGE, sync_df, sync_runs, sync_faults >>

\* SELECT MAX(block_number) over the destination: None for an empty table.
MaxBlockOf(table) ==
    LET held == { r \in SourceRows : table[r] > 0 }
    IN  IF held = {} THEN None ELSE Some(Max({ r[1] : r \in held }))

\* The interpreter starts (MAX_BLOCK_RANGE is read from the environment) and
\* sync_table calls get_last_synced_block, lines 47-53: the greatest
\* block_number of the destination, 0 when it holds none.
SyncStarts(maxBlock) ==
    /\ sync_pc = "idle"
    /\ sync_runs < MaxSyncRuns
    /\ sync_runs' = sync_runs + 1
    /\ \E n \in 0..MaxBlockRange : MAX_BLOCK_RANGE' = n
    /\ last_block' = IF maxBlock = None THEN 0 ELSE maxBlock[1]
    /\ sync_pc' = "extract"
    /\ sync_df' = {}
    /\ UNCHANGED << worker, labeler, thegraph, call, coingecko, source_table, dest_table >>

get_last_synced_block ==
    /\ SyncStarts(MaxBlockOf(dest_table))
    /\ UNCHANGED sync_faults

\* Lines 54-56: the MAX query raises; the exception is logged and 0 returned.
get_last_synced_block_fails ==
    /\ sync_faults < MaxSyncFaults
    /\ sync_faults' = sync_faults + 1
    /\ SyncStarts(None)

\* Lines 66-68: WHERE block_number > last_block
\*              [AND block_number <= last_block + block_range]
NewRows(last, block_range) ==
    { r \in source_table :
        /\ r[1] > last
        /\ block_range > 0 => r[1] <= last + block_range }

\* Lines 59-73, called at line 96.
extract_new_data ==
    /\ sync_pc = "extract"
    /\ sync_df' = NewRows(last_block, MAX_BLOCK_RANGE)
    /\ sync_pc' = "ingest"
    /\ UNCHANGED << worker, labeler, thegraph, call, coingecko, source_table, dest_table, last_block,
                    MAX_BLOCK_RANGE, sync_runs, sync_faults >>

\* The source query raises: sync_table is left by the exception.
extract_new_data_fails ==
    /\ sync_pc = "extract"
    /\ sync_faults < MaxSyncFaults
    /\ sync_faults' = sync_faults + 1
    /\ sync_pc' = "idle"
    /\ UNCHANGED << worker, labeler, thegraph, call, coingecko, source_table, dest_table, last_block,
                    MAX_BLOCK_RANGE, sync_df, sync_runs >>

\* Lines 76-86, called at line 99: one WRITE_APPEND load of the whole frame,
\* nothing for an empty frame.
ingest_data ==
    /\ sync_pc = "ingest"
    /\ dest_table' = [r \in SourceRows |-> dest_table[r] + (IF r \in sync_df THEN 1 ELSE 0)]
    /\ sync_pc' = "idle"
    /\ UNCHANGED << worker, labeler, thegraph, call, coingecko, source_table, last_block,
                    MAX_BLOCK_RANGE, sync_df, sync_runs, sync_faults >>

\* The load job fails: nothing is appended and sync_table is left by the
\* exception.
ingest_data_fails ==
    /\ sync_pc = "ingest"
    /\ sync_df # {}
    /\ sync_faults < MaxSyncFaults
    /\ sync_faults' = sync_faults + 1
    /\ sync_pc' = "idle"
    /\ UNCHANGED << worker, labeler, thegraph, call, coingecko, source_table, dest_table, last_block,
                    MAX_BLOCK_RANGE, sync_df, sync_runs >>

sync_table ==
    \/ get_last_synced_block
    \/ get_last_synced_block_fails
    \/ extract_new_data
    \/ extract_new_data_fails
    \/ ingest_data
    \/ ingest_data_fails

SyncNext == NewBlock \/ sync_table

SyncSpec == DirectInit /\ [][SyncNext]_vars

(***************************************************************************)
(* workers/worker_event_labeler.py: run_label_events_worker.               *)
(***************************************************************************)
\* EVENTS_BATCH_SIZE, 1000 when the variable is not set.
EVENTS_BATCH_SIZE == 2

\* Most rows of LOGS_TABLE at the start of the labeler.
MaxLabelerLogs == 3

\* Rows LOGS_TABLE can hold.
LabelerLogs ==
    { RawLog("0xt1", 0, "0xaa", 1, << TRANSFER_TOPIC, 17, 18 >>, Data(<< 1000 >>, 0)),
      RawLog("0xt1", 1, "0xAA", 1, << TRANSFER_TOPIC_UPPER, 17, 18 >>, Data(<< >>, 31)),
      RawLog("0xt2", 0, "0xaa", 1, << UNKNOWN_TOPIC >>, Data(<< >>, 0)),
      RawLog("0xt4", 0, "0xbb", 1, << TRANSFER_TOPIC, 18, 17 >>, Data(<< 7 >>, 0)),
      EmptyTopicsLog }

\* Values of ABI_MAPPING: the empty dict of lines 29-31 and its extensions
\* by the ERC-20 ABI for one or two addresses.
Mappings == { [a \in D |-> ERC20_ABI] : D \in SUBSET {"0xaa", "0xbb"} }

\* ABI_MAPPING.get(key)
MappingGet(m, key) == IF key \in DOMAIN m THEN Some(m[key]) ELSE None

\* Lines 109-116: the configuration is present and the token query returns;
\* the loop is entered.
StartLabeler ==
    /\ lab_pc = "idle"
    /\ \E T \in SUBSET LabelerLogs, m \in Mappings :
          /\ Cardinality(T) <= MaxLabelerLogs
          /\ lab_logs' = T
          /\ lab_mapping' = m
    /\ lab_pc' = "fetch"
    /\ UNCHANGED << worker, call, coingecko, eth_sync, thegraph, lab_events, raw_logs >>

\* The WHERE clause of fetch_raw_logs: the raw logs without a row of
\* DEST_TABLE of the same block_number, transaction_hash and log_index.
LabelerUnprocessed ==
    { l \in lab_logs :
        ~\E k \in 1..Len(lab_events) :
            /\ lab_events[k].block_number = l.block_number
            /\ lab_events[k].transaction_hash = l.transaction_hash
            /\ lab_events[k].log_index = l.log_index }

\* Lines 119-122: fetch_raw_logs(client, BATCH_SIZE), and the break on an
\* empty frame.
fetch_raw_logs ==
    /\ lab_pc = "fetch"
    /\ \E q \in OrderedByBlock(LabelerUnprocessed) :
          /\ raw_logs' = Head_n(q, EVENTS_BATCH_SIZE)
          /\ lab_pc' = IF q = << >> THEN "done" ELSE "batch"
    /\ UNCHANGED << worker, call, coingecko, eth_sync, thegraph, lab_logs, lab_events,
                    lab_mapping >>

\* Lines 126-130 for one row: the row is skipped when ABI_MAPPING has no ABI
\* for its address, and passed to decode_log otherwise.
LabelRow(row) ==
    LET found == MappingGet(lab_mapping, Lower(row.address)) IN
    IF ~Truthy(found) \/ found[1] = << >> THEN Returned(None, << >>)
    ELSE labeler_decode_log(row, found[1])

\* Lines 124-145: the for-loop over the batch, then `continue` when nothing
\* was decoded, or the merge with the token frame (which adds columns) and
\* the load.  An exception of decode_log leaves the function.
LabelBatch ==
    /\ lab_pc = "batch"
    /\ LET did == [i \in 1..Len(raw_logs) |-> LabelRow(raw_logs[i])]
           returned == SelectSeq(did, LAMBDA d : d.out # None)
           decoded_records == [i \in 1..Len(returned) |-> returned[i].out[1]]
       IN  IF \E i \in 1..Len(did) : did[i].raised
           THEN /\ lab_pc' = "raised"
                /\ UNCHANGED lab_events
           ELSE /\ lab_pc' = "fetch"
                /\ lab_events' = lab_events \o decoded_records
    /\ UNCHANGED << worker, call, coingecko, eth_sync, thegraph, lab_logs, lab_mapping,
                    raw_logs >>

LabelerNext == StartLabeler \/ fetch_raw_logs \/ LabelBatch

\* The interpreter runs the loop without pause: a step that can be taken is
\* taken.
LabelerSpec == DirectInit /\ [][LabelerNext]_vars /\ WF_vars(LabelerNext)

(***************************************************************************)
(* dex_clients/thegraph.py: TheGraphClient.fetch_swaps.                    *)
(***************************************************************************)
\* The page size the subgraph accepts: 1000 at lines 54 and 62.
PageCap == 2

\* Largest limit argument.
MaxLimit == 5

\* Swaps a page can hold.
Swaps == { "s1", "s2" }

\* The pages a request of at most first swaps can receive.
PagesOf(first) == UNION { [1..n -> Swaps] : n \in 0..first }

\* Lines 47-49: the locals at the entry of the loop.
fetch_swaps ==
    /\ tg_pc = "idle"
    /\ \E l \in 1..MaxLimit : tg_limit' = l
    /\ skip' = 0
    /\ all_swaps' = << >>
    /\ pages' = << >>
    /\ tg_pc' = "loop"
    /\ UNCHANGED << worker, call, coingecko, eth_sync, labeler >>

\* Lines 51-66: one iteration of the loop, for the page swaps that
\* session.execute returns.
ExecutePage(swaps) ==
    /\ tg_pc = "loop"
    /\ pages' = Append(pages, swaps)
    /\ IF swaps = << >>
       THEN /\ tg_pc' = "returned"
            /\ UNCHANGED << all_swaps, skip >>
       ELSE /\ all_swaps' = all_swaps \o swaps
            /\ IF Len(swaps) < Min(tg_limit, PageCap)
               THEN /\ tg_pc' = "returned"
                    /\ UNCHANGED skip
               ELSE /\ skip' = skip + Len(swaps)
                    /\ tg_pc' = IF skip' >= tg_limit THEN "returned" ELSE "loop"
    /\ UNCHANGED << worker, call, coingecko, eth_sync, labeler, tg_limit >>

Execute ==
    /\ tg_pc = "loop"
    /\ \E swaps \in PagesOf(Min(tg_limit, PageCap)) : ExecutePage(swaps)

TheGraphNext == fetch_swaps \/ Execute

TheGraphSpec == DirectInit /\ [][TheGraphNext]_vars

(***************************************************************************)
(* Properties.                                                             *)
(***************************************************************************)
\* The (transaction_hash, log_index) identities the sink holds.
SinkIds ==
    { << labeled_events[k].transaction_hash, labeled_events[k].log_index >> :
        k \in 1..Len(labeled_events) }

\* C1: the sink never holds two rows with the same (transaction_hash,
\* log_index), whatever the registry and the raw-log table hold.
C1_SinkIdentitiesUnique ==
    \A i, j \in 1..Len(labeled_events) :
        ( /\ labeled_events[i].transaction_hash = labeled_events[j].transaction_hash
          /\ labeled_events[i].log_index = labeled_events[j].log_index ) => i = j

\* Two runs have finished, and every external call of both succeeded.
TwoCleanRuns ==
    /\ pc = "idle"
    /\ prev.before.ran /\ prev.before.clean
    /\ prev.last.ran /\ prev.last.clean

\* C2 as stated: of two successive runs on unchanged tables (here with every
\* external call succeeding), the second appends no row.
C2_SecondRunAppendsNothing == TwoCleanRuns => prev.last.appended = 0

\* C2 as amended: of two successive runs on unchanged tables whose external
\* calls all succeed, the second appends no row when no raw-log query of the
\* first left rows beyond its LIMIT.
C2_SecondRunAppendsNothingUncapped ==
    (TwoCleanRuns /\ ~prev.before.truncated /\ prev.last.batch = prev.before.batch)
        => prev.last.appended = 0

\* The first of two clean runs appended rows, left undecodable logs behind, and
\* the second looked at them again and appended nothing.
C2_Witness ==
    /\ TwoCleanRuns
    /\ ~prev.before.truncated
    /\ prev.last.batch = prev.before.batch
    /\ prev.before.appended > 0
    /\ failure_count > 0
    /\ prev.last.appended = 0

\* The ABI get_final_abi gives a registry row when every call succeeds.
ResolvedABI(row) ==
    get_final_abi(Lower(row.adresse_contrat), row.chaine_contrat,
                  Some(StorageAt(row.chaine_contrat, Lower(row.adresse_contrat))),
                  TRUE, TRUE).abi

\* Every raw log of a registered contract that matches an event of the
\* contract's resolved ABI and decodes without error has a row in the sink.
AllDecodableInSink ==
    \A l \in logs_raw : \A r \in registry :
        ( /\ Lower(r.adresse_contrat) = Lower(l.address)
          /\ Truthy(ResolvedABI(r))
          /\ decode_log(l, ResolvedABI(r)[1]) /= None )
        => Identity(l) \in SinkIds

\* C3: with unchanged tables and every external call succeeding, repeated
\* runs eventually leave every decodable raw log of every registered
\* contract in the sink.
C3_Converges == <>AllDecodableInSink

\* The call get_final_abi just made was for an address outside the override
\* table and its storage read gave a word whose low 20 bytes are not zero.
ProxyCall ==
    /\ last_call /= None
    /\ last_call[1].address \notin DOMAIN ABI_MAPPING
    /\ last_call[1].storage /= None
    /\ last_call[1].storage[1].lo /= ZERO_ADDRESS

\* The explorer's answer to the request for the implementation's ABI.
ImplAnswer ==
    fetch_abi_from_explorer(last_call[1].storage[1].lo, last_call[1].chain,
                            last_call[1].implOk)

CurrentLog == raw_logs_df[pos]

MatchedEvent == get_event_abi(abi, CurrentLog.topics[1])

\* Every sink row is the decoding of a raw log under an event that the log's
\* topic0 selects in one of the ABIs the resolver can return.
KnownABIs == { ERC20_ABI, POLYGON_ABI, PROXY_ABI }

SinkRowsMatched ==
    \A k \in 1..Len(labeled_events) :
        \E l \in logs_raw : \E a \in KnownABIs :
            /\ Identity(l) = << labeled_events[k].transaction_hash,
                                labeled_events[k].log_index >>
            /\ l.topics /= << >>
            /\ get_event_abi(a, l.topics[1]) /= None
            /\ get_event_abi(a, l.topics[1])[1].name = labeled_events[k].event_name

\* C6: when get_event_abi returns None for the topic0 of the log being
\* decoded, the step accumulates no record and counts no success, and the
\* sink only ever holds rows of logs that matched an event.
C6_UnmatchedLogGivesNoRecord ==
    /\ []SinkRowsMatched
    /\ [][ (pc = "logs" /\ CurrentLog.topics /= << >> /\ MatchedEvent = None)
             => /\ all_decoded_records' = all_decoded_records
                /\ success_count' = success_count
                /\ failure_count' = failure_count + 1
                /\ labeled_events' = labeled_events ]_vars

\* The first log of a query matched no event of the contract's ABI: it was
\* counted as a failure and the loop went on to the second log.
C6_Witness ==
    /\ pc = "logs"
    /\ pos = 2
    /\ raw_logs_df[1].topics[1] = UNKNOWN_TOPIC
    /\ get_event_abi(abi, UNKNOWN_TOPIC) = None
    /\ failure_count = 1
    /\ all_decoded_records = << >>

\* C7: when the decoding of a matched log raises, the step accumulates no
\* record, adds exactly one to failure_count, leaves success_count alone and
\* goes on with the next log (or the next contract after the last log)
\* without ending the run.
C7_DecodeErrorCountsOneFailure ==
    [][ ( /\ pc = "logs"
          /\ CurrentLog.topics /= << >>
          /\ MatchedEvent /= None
          /\ DecodeRaises(MatchedEvent[1], CurrentLog) )
        => /\ all_decoded_records' = all_decoded_records
           /\ failure_count' = failure_count + 1
           /\ success_count' = success_count
           /\ result' = result
           /\ IF pos < Len(raw_logs_df)
              THEN pc' = "logs" /\ pos' = pos + 1 /\ idx' = idx
              ELSE pc' \in {"contract", "flush"} /\ idx' = idx + 1 ]_vars

\* A malformed Transfer log (31 bytes of data) was counted as one failure and
\* the log after it was decoded.
C7_Witness ==
    /\ pc \in {"logs", "contract", "flush"}
    /\ failure_count = 1
    /\ success_count = 1
    /\ \E l \in logs_raw :
          /\ l.data.tail = 31
          /\ Identity(l) \notin { << d[1], d[2] >> : d \in Decoded(all_decoded_records) }
          /\ \E i \in 1..Len(raw_logs_df) : raw_logs_df[i] = l /\ i < pos

\* C8: a contract whose resolution yields nothing (no implementation, no
\* verified source) adds no decoded record and no count, the loop goes on
\* with the next contract of the batch without a return, and a run whose
\* external calls all succeed returns True.
C8_UnknownContractIsSkipped ==
    /\ [](pc = "idle" /\ prev.last.ran /\ prev.last.clean => prev.last.result = "True")
    /\ [][ ( /\ pc = "contract"
             /\ ~Truthy(abi_cache[address])
             /\ ~Truthy(ResolvedABI(contracts[idx])) )
           => /\ all_decoded_records' = all_decoded_records
              /\ success_count' = success_count
              /\ failure_count' = failure_count
              /\ labeled_events' = labeled_events
              /\ result' = result
              /\ idx' = idx + 1
              /\ pc' = IF idx < Len(contracts) THEN "contract" ELSE "flush" ]_vars

\* A run whose first contract has logs but no ABI anywhere went on to its
\* second contract, appended that contract's events and returned True.
C8_Witness ==
    /\ pc = "idle"
    /\ prev.last.clean
    /\ prev.last.result = "True"
    /\ Len(prev.last.batch) = 2
    /\ ~Truthy(ResolvedABI(prev.last.batch[1]))
    /\ \E l \in logs_raw : Lower(l.address) = Lower(prev.last.batch[1].adresse_contrat)
    /\ prev.last.appended > 0
    /\ \A d \in prev.last.decoded : d[3] = Lower(prev.last.batch[2].adresse_contrat)

\* The identities of the events a finished run decoded.
DecodedIds(summary) == { << d[1], d[2] >> : d \in summary.decoded }

\* C9 as stated: when the append fails, it fails for one contract only: the
\* events the run decoded for the other contracts are in the sink.
C9_OtherContractsWritten ==
    (pc = "idle" /\ prev.last.flush_failed) =>
        \E c \in { d[3] : d \in prev.last.decoded } :
            \A d \in prev.last.decoded : d[3] /= c => << d[1], d[2] >> \in SinkIds

\* C9 as amended: the run makes one append, of the events of all its
\* contracts, after the last contract; when that append fails the run writes
\* none of its decoded events, whatever their contract, and returns False.
C9_FailedAppendWritesNothing ==
    /\ [](pc = "idle" /\ prev.last.flush_failed
            => /\ prev.last.result = "False"
               /\ prev.last.appended = 0
               /\ DecodedIds(prev.last) \cap SinkIds = {})
    /\ [][ labeled_events' /= labeled_events
             => /\ pc = "flush"
                /\ pc' = "idle"
                /\ labeled_events' = labeled_events \o all_decoded_records ]_vars

\* The append failed in a run that had decoded events of two contracts.
C9_Witness ==
    /\ pc = "idle"
    /\ prev.last.flush_failed
    /\ Cardinality({ d[3] : d \in prev.last.decoded }) = 2
    /\ result = "False"

\* C10: when the append of a run fails, none of the run's decoded events is
\* in the sink, and the next run, with every call succeeding, decodes the same
\* raw logs again and writes them.
C10_FailedRunIsRetried ==
    /\ (pc = "idle" /\ prev.last.flush_failed) => DecodedIds(prev.last) \cap SinkIds = {}
    /\ (pc = "idle" /\ prev.before.flush_failed /\ prev.last.ran /\ prev.last.clean)
          => DecodedIds(prev.before) \subseteq SinkIds


\* C11: every raw log handed to decode_log has an identity
\* (transaction_hash, log_index) that no sink row carried when the contract's
\* raw-log query was evaluated; the sink is written only at the end of the
\* run, so it is the sink of the query's moment while the logs are decoded.
C11_DecodedLogsWereUnprocessed ==
    pc = "logs" =>
        \A i \in 1..Len(raw_logs_df) : Identity(raw_logs_df[i]) \notin SinkIds

\* A log of the contract is decoded while the sink already holds another log
\* of the same contract, which the query left out.
C11_Witness ==
    /\ pc = "logs"
    /\ pos > 1
    /\ \E l \in logs_raw : Lower(l.address) = address /\ Identity(l) \in SinkIds

\* C13: a contract skipped because get_final_abi found no ABI is counted:
\* the step that skips it changes a counter of the run, which the step that
\* finds zero logs for a resolved contract does not.
C13_ResolutionFailureIsCounted ==
    [][ ( /\ pc = "contract"
          /\ last_call' # None
          /\ ~Truthy(last_call'[1].out.abi) )
        => << success_count', failure_count' >> # << success_count, failure_count >> ]_vars

\* The last direct call, when it was a call of fn.
Called(fn) == call # None /\ call[1].fn = fn

\* C12: a raw log whose topics list is empty yields no decoded event in
\* either worker: decode_log returns no record (it does not raise) and makes
\* no call of get_event_abi.
C12_EmptyTopicsDroppedBeforeMatching ==
    ( /\ Called("worker_3_1.decode_log") \/ Called("worker_event_labeler.decode_log")
      /\ call[1].row.topics = << >> )
    => /\ ~call[1].did.raised
       /\ call[1].did.out = None
       /\ call[1].did.matcher_calls = << >>

\* C14: for an address that, lower-cased, is a key of ABI_MAPPING,
\* get_final_abi returns the override ABI and makes no storage read and no
\* explorer request, whatever the chain holds and the explorer would answer.
C14_OverrideTakesPrecedence ==
    ( /\ Called("get_final_abi")
      /\ Lower(call[1].address) \in DOMAIN ABI_MAPPING )
    => /\ call[1].out.abi = Some(ABI_MAPPING[Lower(call[1].address)])
       /\ ~call[1].out.storage_read
       /\ call[1].out.explorer_calls = << >>

\* get_final_abi was called for the override address written in upper case,
\* which is an EIP-1967 proxy of a verified implementation, with every
\* request answered.
C14_Witness ==
    /\ Called("get_final_abi")
    /\ call[1].address = "0xDE"
    /\ call[1].storage # None
    /\ ImplementationOf(call[1].storage) = Some("0xcc")
    /\ call[1].implOk /\ call[1].ownOk
    /\ Truthy(VerifiedABI(call[1].chain, "0xcc"))
    /\ call[1].out.abi = Some(ERC20_ABI)

\* C15: when the read of the implementation slot (made for every address
\* outside the override table) raises or returns the all-zero word,
\* get_final_abi returns (it does not raise) exactly what the
\* explorer request for the original address returns, and asks the explorer
\* for nothing else.
C15_FailedReadFallsBackToOwnAddress ==
    ( /\ Called("get_final_abi")
      /\ Lower(call[1].address) \notin DOMAIN ABI_MAPPING
      /\ call[1].storage \in { None, Some(Word(0, ZERO_ADDRESS)) } )
    => /\ call[1].out.abi
            = fetch_abi_from_explorer(call[1].address, call[1].chain, call[1].ownOk)
       /\ call[1].out.explorer_calls = << call[1].address >>

\* The storage read raised for a contract whose own source is verified, and
\* get_final_abi returned that ABI.
C15_Witness ==
    /\ Called("get_final_abi")
    /\ call[1].out.storage_read
    /\ call[1].storage = None
    /\ call[1].address = "0xbb"
    /\ call[1].out.abi = Some(PROXY_ABI)

\* The canonical signature "Name(type1,type2,...)" of an event entry hashes
\* to topic0, compared without regard to case.
SignatureMatches(entry, topic0) ==
    /\ entry.type = "event"
    /\ ~entry.anonymous
    /\ Lower(Keccak(SignatureText(entry))) = Lower(topic0)

\* C16: get_event_abi of worker_3_1 returns the first entry, in declaration
\* order, that is a non-anonymous event whose canonical signature (ordered
\* input types, whatever the indexed flags and the input names) hashes to
\* topic0 compared case-insensitively, and None when no entry matches.
C16_FirstMatchingEvent ==
    Called("worker_3_1.get_event_abi") =>
        LET a == call[1].abi
            hits == { i \in 1..Len(a) : SignatureMatches(a[i], call[1].topic0) }
        IN  IF hits = {} THEN call[1].out = None
            ELSE call[1].out = Some(a[CHOOSE i \in hits : \A j \in hits : i <= j])

\* An ABI declaring three events of signature Transfer(address,address,uint256),
\* the first anonymous, looked up with the upper-case topic: the second entry,
\* which has no indexed input, is returned.
C16_Witness ==
    /\ Called("worker_3_1.get_event_abi")
    /\ call[1].abi = << AnonymousTransfer, TransferUnindexed, TransferEvent >>
    /\ call[1].topic0 = TRANSFER_TOPIC_UPPER
    /\ call[1].out = Some(TransferUnindexed)

\* C17: neither get_event_abi (worker_3_1, worker_event_labeler) returns an
\* ABI entry flagged anonymous, for any ABI and topic0.
C17_AnonymousNeverReturned ==
    ( /\ \/ Called("worker_3_1.get_event_abi")
         \/ Called("worker_event_labeler.get_event_abi")
      /\ call[1].out # None )
    => ~call[1].out[1].anonymous

\* The responses of the call that _get retried (429 or 5xx).
Retried == { i \in 1..Len(responses) : Retryable(responses[i].status) }

\* C18: a call of _get makes at most retries requests (3 for token_details);
\* only a 429 or 5xx response is followed by another request, after a sleep
\* of 1 second that doubles at each retry; a 200 response with a JSON body
\* received after k retried responses makes the call return that body with
\* k + 1 requests made; retries retried responses in a row end the call with
\* RuntimeError.
C18_RetriesWithDoublingBackoff ==
    cg_fn # "none" =>
        /\ cg_fn = "token_details" => retries = DefaultRetries
        /\ requests = Len(responses)
        /\ requests <= retries
        /\ \A i \in 1..Len(responses) - 1 : i \in Retried
        /\ Len(sleeps) = Cardinality(Retried)
        /\ \A i \in 1..Len(sleeps) : sleeps[i] = 2 ^ (i - 1)
        /\ cg_pc = "loop" <=> ( /\ Cardinality(Retried) = Len(responses)
                                /\ Len(responses) < retries )
        /\ ( /\ cg_pc = "done"
             /\ responses # << >>
             /\ responses[Len(responses)].status = 200
             /\ responses[Len(responses)].json # None )
           => /\ outcome = ReturnValue(responses[Len(responses)].json)
              /\ requests = Cardinality(Retried) + 1
        /\ ( cg_pc = "done" /\ Cardinality(Retried) = retries )
           => outcome = Raise("RuntimeError")

\* token_details got 429, slept one second, then got 200 with a JSON body and
\* returned it after two requests.
C18_Witness ==
    /\ cg_fn = "token_details"
    /\ cg_pc = "done"
    /\ responses = << Response(429, None), Response(200, Some("{id: bitcoin}")) >>
    /\ sleeps = << 1 >>
    /\ requests = 2
    /\ outcome = ReturnValue(Some("{id: bitcoin}"))

\* C19: token_details raises when the API answers 200 with a body that is
\* not valid JSON; it returns no value.
C19_InvalidJsonRaises ==
    ( /\ cg_fn = "token_details"
      /\ cg_pc = "done"
      /\ responses # << >>
      /\ responses[Len(responses)] = Response(200, None) )
    => outcome.kind = "raised"

\* C20: whatever runs of sync_table have been made, failed queries and loads
\* included, the destination holds no source row more than once.
C20_NoSourceRowAppendedTwice ==
    \A r \in SourceRows : dest_table[r] <= 1

\* The ABIs get_final_abi can return for the row being processed, over every
\* outcome of the calls it makes on the row's chain.
ABIsResolvableHere ==
    { get_final_abi(address, chain, storage, implOk, ownOk).abi :
        storage \in { None, Some(StorageAt(chain, address)) },
        implOk \in BOOLEAN, ownOk \in BOOLEAN }

\* C21: the ABI with which the logs of a registry row (chain, address) are
\* queried and decoded is one resolved for that chain; an ABI cached for the
\* same address on another chain is not used.
C21_ABIResolvedForRowChain ==
    pc \in {"query", "logs"} => Some(abi) \in ABIsResolvableHere

\* C22: while a run lasts, an entry of abi_cache is neither overwritten nor
\* removed; a later registry row with a cached address takes the cached ABI
\* without a call of get_final_abi, and queries and decodes its logs with it.
C22_CacheEntryIsStableInRun ==
    /\ [](pc \in {"query", "logs"} => abi_cache[address] = Some(abi))
    /\ [][ ( pc # "idle" /\ pc' # "idle" )
           => \A a \in DOMAIN abi_cache :
                 Truthy(abi_cache[a]) => abi_cache'[a] = abi_cache[a] ]_vars
    /\ [][ ( /\ pc = "contract"
             /\ chain \in web3_providers
             /\ Truthy(abi_cache[address]) )
           => /\ last_call' = None
              /\ pc' = "query"
              /\ abi' = abi_cache[address][1]
              /\ idx' = idx ]_vars

\* The second row of the batch has the address of the first: its logs are
\* being decoded after a single resolution in the run.
C22_Witness ==
    /\ pc = "logs"
    /\ pos > 1
    /\ idx = 2
    /\ Lower(contracts[1].adresse_contrat) = address
    /\ Len(run.resolutions) = 1

\* C23: the raw logs of a contract are decoded in ascending block_number
\* order, and logs of one block in ascending log_index order.
C23_DecodedInBlockThenLogIndexOrder ==
    pc = "logs" =>
        \A i, j \in 1..Len(raw_logs_df) :
            i < j =>
                \/ raw_logs_df[i].block_number < raw_logs_df[j].block_number
                \/ /\ raw_logs_df[i].block_number = raw_logs_df[j].block_number
                   /\ raw_logs_df[i].log_index <= raw_logs_df[j].log_index

\* C24: a run returns False or raises only when the registry cannot be read
\* or the sink cannot be reached or written; a failing ABI resolution, raw-log
\* query or log decode never ends the run.
C24_OnlyRegistryOrSinkAborts ==
    /\ [](prev.last.result = "False"
            => prev.last.abort \in {"registry", "sink_unreachable", "sink_write"})
    /\ [][ ( pc \in {"contract", "query", "logs"} ) => ( pc' # "idle" ) ]_vars

\* C24, as the worker behaves: a run also returns False when its
\* configuration is missing, when no RPC node is connected, and when the
\* warehouse reports the raw-log table as not found; the failure of an ABI
\* resolution, any other failure of a raw-log query and the failure of a log
\* decode never end the run.
C24_AbortsOnlyOnTotalFailure ==
    /\ [](prev.last.result = "False"
            => prev.last.abort \in {"config", "no_rpc", "registry", "sink_unreachable",
                                    "logs_table", "sink_write"})
    /\ [](prev.last.ran /\ prev.last.abort = "none" => prev.last.result = "True")
    /\ [][ ( pc \in {"contract", "logs"} ) => ( pc' # "idle" ) ]_vars
    /\ [][ ( pc = "query" /\ pc' = "idle" ) => prev'.last.abort = "logs_table" ]_vars

\* A run in which an ABI resolution failed went on and returned True.
C24_Witness ==
    /\ pc = "idle"
    /\ prev.last.ran
    /\ ~prev.last.clean
    /\ prev.last.batch # << >>
    /\ prev.last.result = "True"
    /\ faults > 0

\* The explorer requests that the last get_final_abi call made for its own
\* address.
OwnRequests ==
    { i \in 1..Len(last_call[1].out.explorer_calls) :
        last_call[1].out.explorer_calls[i] = last_call[1].address }

\* C25: an explorer request that fails (timeout, 5xx) during a resolution is
\* made again at the call site before the resolution is given up: the
\* address is requested at least twice.
C25_FailedCallIsRetried ==
    ( /\ last_call # None
      /\ ~last_call[1].ownOk
      /\ OwnRequests # {} )
    => Cardinality(OwnRequests) >= 2

\* C26: no step of a run modifies or deletes a sink row: the sink after the
\* step begins with the sink before it; the sink is exactly unchanged by a
\* run that ends without a decoded record and by a run that returns before
\* its append.
C26_SinkIsAppendOnly ==
    [][ /\ Len(labeled_events) <= Len(labeled_events')
        /\ SubSeq(labeled_events', 1, Len(labeled_events)) = labeled_events
        /\ ( \/ pc # "flush"
             \/ all_decoded_records = << >> ) => labeled_events' = labeled_events ]_vars

\* A run appended its events behind the rows an earlier run had written.
C26_Witness ==
    /\ pc = "idle"
    /\ prev.last.appended > 0
    /\ prev.before.appended > 0
    /\ Len(labeled_events) >= prev.last.appended + prev.before.appended

\* C27: a record returned by decode_log of worker_3_1 has the name of the
\* matched ABI entry as event_name, the raw log's block_number,
\* transaction_hash and log_index, the lower-cased log address as
\* contract_address, and for every argument of the event a key of the
\* argument's name holding the string form of its decoded value.
C27_RecordFields ==
    ( Called("worker_3_1.decode_log") /\ call[1].did.out # None )
    => LET record == call[1].did.out[1]
           row == call[1].row
           entry == get_event_abi(call[1].abi, row.topics[1])[1]
           decoded == DecodedArgs(entry, row)
       IN  /\ record.event_name = entry.name
           /\ record.block_number = row.block_number
           /\ record.transaction_hash = row.transaction_hash
           /\ record.log_index = row.log_index
           /\ record.contract_address = Lower(row.address)
           /\ \A i \in 1..Len(decoded) :
                 \E j \in 1..Len(record.args) : record.args[j] = decoded[i]

\* C28: during a run success_count is the number of accumulated decoded
\* records; a run starts with both counters at zero, every log passed to
\* decode_log adds exactly one to success_count + failure_count, and a step
\* that is not a decode (a cache hit, an ABI resolution that succeeds or
\* fails, a raw-log query that succeeds or fails) changes neither counter and
\* adds no record.
C28_CounterIntegrity ==
    /\ []( pc # "idle" => success_count = Len(all_decoded_records) )
    /\ [][ ( pc = "idle" /\ pc' # "idle" )
           => ( success_count' = 0 /\ failure_count' = 0
                /\ all_decoded_records' = << >> ) ]_vars
    /\ [][ ( pc = "logs" )
           => success_count' + failure_count' = success_count + failure_count + 1 ]_vars
    /\ [][ ( pc \in {"contract", "query"} /\ pc' # "idle" )
           => ( success_count' = success_count /\ failure_count' = failure_count
                /\ all_decoded_records' = all_decoded_records ) ]_vars

\* A run that met a failed external call has counted a decoded log and an
\* undecodable log.
C28_Witness ==
    /\ pc # "idle"
    /\ faults > 0
    /\ success_count > 0
    /\ failure_count > 0

\* C29: run_label_events_worker of worker_event_labeler, once in its loop,
\* eventually fetches an empty batch and leaves the loop.
C29_LabelerTerminates == ( lab_pc = "fetch" ) ~> ( lab_pc = "done" )

\* C30: fetch_swaps returns at most limit swaps.
C30_AtMostLimitSwaps == tg_pc = "returned" => Len(all_swaps) <= tg_limit

====
